---- MODULE Spec2Model ----
(***************************************************************************)
(* Model of grapher/graph.py (srclib-python): the worker graph(), which    *)
(* extracts Definitions and References of a list of files and assembles    *)
(* the de-duplicated graph, and graph_wrapper(), which runs one worker per *)
(* batch of files and concatenates what the workers print.                 *)
(*                                                                         *)
(* A Python string is a sequence of tokens: "/" and "." are one-character  *)
(* tokens of their own, "\n" is the line feed, and every other token is a  *)
(* run of characters holding neither (Len(token) is its length).           *)
(***************************************************************************)
EXTENDS Integers, Sequences, FiniteSets, TLC

(***************************************************************************)
(* Bounds of the model.                                                    *)
(***************************************************************************)
MaxFiles == 2
MaxOccs == 2
MaxBatch == 2

\* Python's None, and an int where None may stand
None == [none |-> TRUE]
Int_(n) == [none |-> FALSE, int |-> n]

(***************************************************************************)
(* str and os.path                                                         *)
(***************************************************************************)
replace(s, a, b) == [k \in 1..Len(s) |-> IF s[k] = a THEN b ELSE s[k]]

\* s.rfind(t) + 1: the last position of t in s, 0 when there is none
rfind(s, t) ==
  LET I == {k \in 1..Len(s) : s[k] = t}
  IN IF I = {} THEN 0 ELSE CHOOSE k \in I : \A j \in I : j <= k

\* s.find(t) + 1
find(s, t) ==
  LET I == {k \in 1..Len(s) : s[k] = t}
  IN IF I = {} THEN 0 ELSE CHOOSE k \in I : \A j \in I : k <= j

RECURSIVE rstrip(_, _)
rstrip(s, t) ==
  IF s # <<>> /\ s[Len(s)] = t THEN rstrip(SubSeq(s, 1, Len(s) - 1), t) ELSE s

\* s.split(sep): the pieces between the separators, empty pieces included
RECURSIVE split(_, _)
split(s, sep) ==
  LET k == find(s, sep)
  IN IF k = 0 THEN <<s>>
     ELSE <<SubSeq(s, 1, k - 1)>> \o split(SubSeq(s, k + 1, Len(s)), sep)

startswith(s, p) == Len(s) >= Len(p) /\ SubSeq(s, 1, Len(p)) = p

basename(p) == SubSeq(p, rfind(p, "/") + 1, Len(p))

dirname(p) ==
  LET head == SubSeq(p, 1, rfind(p, "/"))
  IN IF head # <<>> /\ (\E k \in 1..Len(head) : head[k] # "/")
     THEN rstrip(head, "/") ELSE head

\* posixpath.splitext: <<root, ext>>; leading dots of the basename are no extension
splitext(p) ==
  LET sepIndex == rfind(p, "/")
      dotIndex == rfind(p, ".")
  IN IF dotIndex > sepIndex
        /\ \E k \in (sepIndex + 1)..(dotIndex - 1) : p[k] # "."
     THEN <<SubSeq(p, 1, dotIndex - 1), SubSeq(p, dotIndex, Len(p))>>
     ELSE <<p, <<>>>>

\* posixpath.join(a, b)
join(a, b) ==
  IF b # <<>> /\ b[1] = "/" THEN b
  ELSE IF a = <<>> \/ a[Len(a)] = "/" THEN a \o b
  ELSE a \o <<"/">> \o b

\* posixpath.join(*comps), comps not empty
RECURSIVE joinAll(_)
joinAll(comps) ==
  IF Len(comps) = 1 THEN comps[1]
  ELSE join(joinAll(SubSeq(comps, 1, Len(comps) - 1)), comps[Len(comps)])

DotDot == <<".", ".">>

\* the loop of posixpath.normpath over the components
RECURSIVE normcomps(_, _, _)
normcomps(comps, new_comps, initial_slashes) ==
  IF comps = <<>> THEN new_comps
  ELSE LET comp == Head(comps)
           rest == Tail(comps)
       IN IF comp = <<>> \/ comp = <<".">>
          THEN normcomps(rest, new_comps, initial_slashes)
          ELSE IF comp # DotDot
                  \/ (~initial_slashes /\ new_comps = <<>>)
                  \/ (new_comps # <<>> /\ new_comps[Len(new_comps)] = DotDot)
          THEN normcomps(rest, Append(new_comps, comp), initial_slashes)
          ELSE IF new_comps # <<>>
          THEN normcomps(rest, SubSeq(new_comps, 1, Len(new_comps) - 1), initial_slashes)
          ELSE normcomps(rest, new_comps, initial_slashes)

isabs(p) == p # <<>> /\ p[1] = "/"

\* the end of posixpath.normpath: the components joined, "." for an empty path
normjoin(comps, initial_slashes) ==
  IF comps = <<>> THEN (IF initial_slashes THEN <<"/">> ELSE <<".">>)
  ELSE IF initial_slashes THEN <<"/">> \o joinAll(comps)
  ELSE joinAll(comps)

normpath(p) == normjoin(normcomps(split(p, "/"), <<>>, isabs(p)), isabs(p))

\* the working directory, set by os.chdir(dir_)
cwd == <<"/", "w">>

abspath(p) == normpath(join(cwd, p))

nonempty(comps) == SelectSeq(comps, LAMBDA c : c # <<>>)

RECURSIVE commonprefixlen(_, _)
commonprefixlen(a, b) ==
  IF a # <<>> /\ b # <<>> /\ Head(a) = Head(b)
  THEN 1 + commonprefixlen(Tail(a), Tail(b)) ELSE 0

\* posixpath.relpath(p), relative to the working directory
\* rel_list of posixpath.relpath; n is the length of the common prefix
rel_list(start_list, path_list, n) ==
  [k \in 1..(Len(start_list) - n) |-> DotDot]
    \o SubSeq(path_list, n + 1, Len(path_list))

reljoin(rel) == IF rel = <<>> THEN <<".">> ELSE joinAll(rel)

relfrom(start_list, path_list) ==
  reljoin(rel_list(start_list, path_list, commonprefixlen(start_list, path_list)))

relpath(p) ==
  relfrom(nonempty(split(abspath(<<".">>), "/")), nonempty(split(abspath(p), "/")))

(***************************************************************************)
(* The files of the tree, their text (jedi.Script(path).source) and the    *)
(* name occurrences the analysis engine may report for a file              *)
(* (jedi.names(path, all_scopes=True, references=True)).                   *)
(***************************************************************************)
F_a == <<"a", ".", "py">>
F_init == <<"a", "/", "__init__", ".", "py">>
F_foo == <<"a", "/", "foo", ".", "py">>
F_txt == <<"r", ".", "txt">>

PyFiles == {F_a, F_init, F_foo}
TreeFiles == PyFiles \cup {F_txt}

source_of(f) ==
  IF f = F_init THEN <<"from foo import foo, bar; foo(bar)">>
  ELSE <<"def foo(self, p):", "\n", "    self", ".", "x = foo(len(p))">>

\* the engine's name of the module of file f, the first part of every full_name
module_name(f) ==
  IF basename(f) = <<"__init__", ".", "py">> THEN basename(dirname(f))
  ELSE splitext(basename(f))[1]

Scope(type, full_name) == [type |-> type, full_name |-> full_name]

Name(is_def, type, name, attr, full_name, line, column, module_path, builtin, parents) ==
  [is_definition |-> is_def, type |-> type, name |-> name, attr |-> attr,
   full_name |-> full_name, line |-> line, column |-> column,
   module_path |-> module_path, in_builtin_module |-> builtin, parents |-> parents]

\* attr is the attribute an occurrence binds through self ("" when it binds none);
\* the program never reads it
Definition(type, name, attr, full_name, line, column, f, parents) ==
  Name(TRUE, type, name, attr, full_name, line, column, f, FALSE, parents)

Reference(name, full_name, line, column, module_path, builtin) ==
  Name(FALSE, "function", name, "", full_name, line, column, module_path, builtin, <<>>)

\* a.py: def foo, bound twice; class C whose __init__ binds self.x and self.y
\* (reported under the name of the receiver, or under the name of the attribute);
\* uses of foo, of q.g from site-packages and of z.z from outside every known root
Names_a(f, m) ==
  LET mod == Scope("module", m)
      cls == Scope("class", m \o <<".", "C">>)
      meth == Scope("function", m \o <<".", "C", ".", "__init__">>)
  IN { Definition("function", "foo", "", m \o <<".", "foo">>, 1, 4, f, <<mod>>),
       Definition("function", "foo", "", m \o <<".", "foo">>, 2, 4, f, <<mod>>),
       Definition("statement", "self", "x", meth.full_name, 1, 8, f, <<meth, cls, mod>>),
       Definition("statement", "self", "y", meth.full_name, 2, 8, f, <<meth, cls, mod>>),
       Definition("statement", "x", "x", meth.full_name, 2, 9, f, <<meth, cls, mod>>),
       Reference("foo", m \o <<".", "foo">>, 2, 13, abspath(f), FALSE),
       Reference("g", <<"q", ".", "g">>, 1, 0,
                 <<"/", "usr", "/", "site-packages", "/", "q", ".", "py">>, FALSE),
       Reference("z", <<"z", ".", "z">>, 1, 0, <<"/", "opt", "/", "z", ".", "py">>, FALSE) }

\* a/__init__.py, one line of text: def foo; a binding of self in a function of
\* no class; names the engine puts on lines 2 and 3
Names_init(f, m) ==
  LET mod == Scope("module", m)
      fun == Scope("function", m \o <<".", "foo">>)
  IN { Definition("function", "foo", "", fun.full_name, 1, 4, f, <<mod>>),
       Definition("statement", "self", "", fun.full_name, 1, 9, f, <<fun, mod>>),
       Definition("function", "bar", "", m \o <<".", "bar">>, 3, 0, f, <<mod>>),
       Reference("foo", fun.full_name, 2, 0, abspath(f), FALSE),
       Reference("foo", fun.full_name, 3, 0, abspath(f), FALSE) }

\* a/foo.py, two lines of text: def foo(p); def bar put on line 3; a use of the
\* builtin len
Names_foo(f, m) ==
  LET mod == Scope("module", m)
      fun == Scope("function", m \o <<".", "foo">>)
  IN { Definition("function", "foo", "", fun.full_name, 1, 4, f, <<mod>>),
       Definition("param", "p", "", fun.full_name, 1, 14, f, <<fun, mod>>),
       Definition("function", "bar", "", m \o <<".", "bar">>, 3, 0, f, <<mod>>),
       Reference("len", <<"len">>, 2, 17,
                 <<"/", "usr", "/", "python2", ".", "7", "/", "t", ".", "so">>, TRUE) }

Names(f) ==
  IF f = F_a THEN Names_a(f, module_name(f))
  ELSE IF f = F_init THEN Names_init(f, module_name(f))
  ELSE Names_foo(f, module_name(f))

(***************************************************************************)
(* Results of Python expressions that may raise                            *)
(***************************************************************************)
Ok(v) == [exc |-> FALSE, val |-> v]
Raise == [exc |-> TRUE, val |-> <<>>]

(***************************************************************************)
(* LineColToOffConverter                                                   *)
(***************************************************************************)
RECURSIVE strlen(_)
strlen(s) == IF s = <<>> THEN 0 ELSE Len(Head(s)) + strlen(Tail(s))

\* __init__: the table of the offsets at which the lines start
RECURSIVE offsets(_, _)
offsets(source_lines, cumulative_off) ==
  IF source_lines = <<>> THEN cumulative_off
  ELSE offsets(Tail(source_lines),
               Append(cumulative_off,
                      cumulative_off[Len(cumulative_off)] + strlen(Head(source_lines)) + 1))

LineColToOffConverter(source) == offsets(split(source, "\n"), <<0>>)

\* convert(line, column): an offset, or the tuple (None, message)
convert(cumulative_off, line, column) ==
  LET line0 == line - 1
  IN IF line0 >= Len(cumulative_off)
     THEN [tuple |-> TRUE, off |-> 0]
     ELSE [tuple |-> FALSE, off |-> cumulative_off[line0 + 1] + column]

(***************************************************************************)
(* Path resolution                                                         *)
(***************************************************************************)
supermodule_path(module_path) ==
  IF basename(module_path) = <<"__init__", ".", "py">>
  THEN dirname(dirname(module_path))
  ELSE dirname(module_path)

\* str.startswith('python') of a path component
startswith_python(cmpt) == cmpt # <<>> /\ Head(cmpt) \in {"python", "python2", "python3"}

\* the index a for/break (or while) search stops at, I being the indexes
\* that satisfy its test; 0 when none does
first_index(I) == IF I = {} THEN 0 ELSE CHOOSE k \in I : \A j \in I : k <= j

is_packages_dir(cmpt) == cmpt \in {<<"site-packages">>, <<"dist-packages">>}

\* path.join(*components[i + 1:]); join() of no argument is a TypeError
join_after(components, k) ==
  IF k = Len(components) THEN Raise
  ELSE Ok(joinAll(SubSeq(components, k + 1, Len(components))))

\* the two marker searches; pkg and py are the indexes found, 0 for none
after_marker(components, pkg, py) ==
  IF pkg # 0 THEN join_after(components, pkg)
  ELSE IF py # 0 THEN join_after(components, py)
  ELSE Raise

relative_or_marker(rel, components) ==
  IF ~startswith(rel, DotDot) THEN Ok(rel)
  ELSE after_marker(components,
         first_index({k \in DOMAIN components : is_packages_dir(components[k])}),
         first_index({k \in DOMAIN components : startswith_python(components[k])}))

abs_module_path_to_relative_module_path(module_path) ==
  relative_or_marker(relpath(module_path), split(module_path, "/"))

\* the scope the while loop of the self.* kludge stops at: 0 when the chain
\* ends before a class is found (parent() is None: AttributeError)
class_scope(parents) ==
  first_index({k \in DOMAIN parents : parents[k].type = "class"})

\* the local full name of steps "statement" / "param" / other
self_full_name(def_, k) ==
  IF k = 0 THEN Raise
  ELSE Ok(def_.parents[k].full_name \o <<".", def_.name>>)

local_full_name(def_) ==
  IF def_.type = "statement"
  THEN IF def_.parents = <<>> THEN Raise
       ELSE IF def_.parents[1].type = "function" /\ def_.name = "self"
       THEN self_full_name(def_, class_scope(def_.parents))
       ELSE Ok(def_.full_name \o <<".", def_.name>>)
  ELSE IF def_.type = "param" THEN Ok(def_.full_name \o <<".", def_.name>>)
  ELSE Ok(def_.full_name)

\* path.join(supermodule, full_name), when neither step before it raised
qualified(full_name, module_path) ==
  IF full_name.exc \/ module_path.exc THEN Raise
  ELSE Ok(join(replace(supermodule_path(module_path.val), "/", "."),
               full_name.val))

full_name_of_def(def_, from_ref) ==
  IF def_.in_builtin_module THEN Ok(<<def_.name>>)
  ELSE qualified(local_full_name(def_),
                 IF from_ref
                 THEN abs_module_path_to_relative_module_path(def_.module_path)
                 ELSE Ok(def_.module_path))

(***************************************************************************)
(* Def and Ref records; extraction of one name occurrence                  *)
(***************************************************************************)
Def(Path, Kind, Name_, File, DefStart, DefEnd, Docstring) ==
  [Path |-> Path, Kind |-> Kind, Name |-> Name_, File |-> File,
   DefStart |-> DefStart, DefEnd |-> DefEnd, Exported |-> TRUE,
   Docstring |-> Docstring, Data |-> None]

Ref(DefPath, DefFile, Def_, File, Start, End, ToBuiltin) ==
  [DefPath |-> DefPath, DefFile |-> DefFile, Def |-> Def_, File |-> File,
   Start |-> Start, End |-> End, ToBuiltin |-> ToBuiltin]

\* make_def with DefEnd = start: the length of the name forgotten
make_def_empty_span(def_, full_name, start) ==
  IF full_name.exc \/ start.tuple THEN Raise
  ELSE Ok(Def(replace(full_name.val, ".", "/"), def_.type, def_.name,
              relpath(def_.module_path), start.off, start.off, ""))

\* the Def(...) call of jedi_def_to_def; start + len(name) of a tuple is a TypeError
make_def(def_, full_name, start) ==
  IF full_name.exc \/ start.tuple THEN Raise
  ELSE Ok(Def(replace(full_name.val, ".", "/"), def_.type, def_.name,
              relpath(def_.module_path), start.off,
              start.off + Len(def_.name), ""))

jedi_def_to_def(def_, source_file, linecoler) ==
  make_def(def_, full_name_of_def(def_, FALSE),
           convert(linecoler, def_.line, def_.column))

\* the Ref(...) call of get_defs_refs, after the test for an empty full name
make_ref(name, file_path, full_name, start) ==
  IF full_name.exc THEN Raise
  ELSE IF full_name.val = <<>> THEN Raise
  ELSE IF start.tuple THEN Raise
  ELSE Ok(Ref(replace(full_name.val, ".", "/"), relpath(name.module_path),
              FALSE, file_path, start.off, start.off + Len(name.name),
              name.in_builtin_module))

\* the try block of get_defs_refs for an occurrence that is no definition
jedi_ref_to_ref(name, file_path, linecoler) ==
  make_ref(name, file_path, full_name_of_def(name, TRUE),
           convert(linecoler, name.line, name.column))

\* what one round of the loop of get_defs_refs does with a name: "def" and "ref"
\* append val, "error" is the except branch, "raise" an exception nobody catches
outcome(kind, result) ==
  IF result.exc THEN [kind |-> IF kind = "def" THEN "raise" ELSE "error", val |-> <<>>]
  ELSE [kind |-> kind, val |-> result.val]

get_defs_refs_name(name, file_path, linecoler) ==
  IF name.is_definition
  THEN outcome("def", jedi_def_to_def(name, file_path, linecoler))
  ELSE outcome("ref", jedi_ref_to_ref(name, file_path, linecoler))

(***************************************************************************)
(* Graph assembly: graph() after the extraction loop                       *)
(***************************************************************************)
filename_to_module_name(filename) ==
  IF basename(filename) = <<"__init__", ".", "py">>
  THEN replace(dirname(filename), "/", ".")
  ELSE replace(splitext(filename)[1], "/", ".")

\* the Def that graph() makes of one (module, filename) pair
module_def(module, filename) ==
  LET parts == split(module, ".")
      last == parts[Len(parts)]
  IN Def(replace(module, ".", "/"), "module",
         IF last = <<>> THEN "" ELSE last[1], filename, 0, 0, "")

\* for module, filename in modules_and_files: defs.insert(0, Def(...))
RECURSIVE add_module_defs(_, _)
add_module_defs(defs, files) ==
  IF files = <<>> THEN defs
  ELSE add_module_defs(
         <<module_def(filename_to_module_name(Head(files)), Head(files))>> \o defs,
         Tail(files))

\* the first definition of every Path, in the order of defs
RECURSIVE unique_defs_from(_, _, _)
unique_defs_from(defs, unique_defs, unique_def_paths) ==
  IF defs = <<>> THEN unique_defs
  ELSE IF Head(defs).Path \in unique_def_paths
  THEN unique_defs_from(Tail(defs), unique_defs, unique_def_paths)
  ELSE unique_defs_from(Tail(defs), Append(unique_defs, Head(defs)),
                        unique_def_paths \cup {Head(defs).Path})

unwrap(es) == [k \in 1..Len(es) |-> es[k].d]

\* dedup_defs with (Path, File) as the key: a Path is kept once per file
dedup_defs_per_file(defs) ==
  unwrap(SelectSeq([k \in 1..Len(defs) |-> [k |-> k, d |-> defs[k]]],
            LAMBDA e : \A j \in 1..(e.k - 1) :
                         <<defs[j].Path, defs[j].File>> # <<e.d.Path, e.d.File>>))

dedup_defs(defs) == unique_defs_from(defs, <<>>, {})

ref_key(ref) == <<ref.DefPath, ref.DefFile, ref.File, ref.Start, ref.End>>

\* self_ref with DefStart as both ends of the span
self_ref_start_only(def_) ==
  Ref(def_.Path, abspath(def_.File), TRUE, def_.File, def_.DefStart, def_.DefStart, FALSE)

self_ref(def_) ==
  Ref(def_.Path, abspath(def_.File), TRUE, def_.File, def_.DefStart, def_.DefEnd, FALSE)

\* the first reference of every key, in the order of refs
RECURSIVE unique_refs_from(_, _, _)
unique_refs_from(refs, unique_refs, unique_ref_keys) ==
  IF refs = <<>> THEN unique_refs
  ELSE IF ref_key(Head(refs)) \in unique_ref_keys
  THEN unique_refs_from(Tail(refs), unique_refs, unique_ref_keys)
  ELSE unique_refs_from(Tail(refs), Append(unique_refs, Head(refs)),
                        unique_ref_keys \cup {ref_key(Head(refs))})

\* dedup_refs with the extracted references appended unchecked
dedup_refs_self_only(unique_defs, refs) ==
  unique_refs_from([k \in 1..Len(unique_defs) |-> self_ref(unique_defs[k])], <<>>, {})
    \o refs

\* self-references of the kept definitions, then the extracted references
dedup_refs(unique_defs, refs) ==
  unique_refs_from([k \in 1..Len(unique_defs) |-> self_ref(unique_defs[k])] \o refs,
                   <<>>, {})

\* what graph() prints for the files and what the extraction loop collected
graph_of(unique_defs, refs_) ==
  [Defs |-> unique_defs, Refs |-> dedup_refs(unique_defs, refs_)]

assemble(files, defs_, refs_) ==
  graph_of(dedup_defs(add_module_defs(defs_, files)), refs_)

(***************************************************************************)
(* graph_wrapper: file discovery, batches, concatenation                   *)
(***************************************************************************)
min(a, b) == IF a < b THEN a ELSE b

get_source_files(walk) ==
  LET py == SelectSeq(walk, LAMBDA f : splitext(basename(f))[2] = <<".", "py">>)
  IN [k \in 1..Len(py) |-> normpath(join(<<".">>, py[k]))]

truncate(files, nSourceFilesTrunc) ==
  IF nSourceFilesTrunc = None THEN files
  ELSE SubSeq(files, 1, min(nSourceFilesTrunc.int, Len(files)))

\* source_files[i:i + size], i counted from 0
batch_of(files, i, size) ==
  SubSeq(files, i + 1, min(i + size, Len(files)))

\* extend that assigns where it should append
extend_overwrite(data, more) == more

extend(data, more) ==
  [Defs |-> data.Defs \o more.Defs, Refs |-> data.Refs \o more.Refs]

(***************************************************************************)
(* State                                                                   *)
(***************************************************************************)
VARIABLES
  mode,               \* "files": graph(dir, files); "dir": graph_wrapper(dir)
  source_files,       \* the files of the run, in order
  SOURCE_FILE_BATCH,  \* the batch size of graph_wrapper
  i,                  \* graph_wrapper: the offset of the current batch
  all_data,           \* graph_wrapper: the Defs and Refs of the batches so far
  wpc,                \* graph_wrapper: "loop", "wait", "done", "crashed"; "none" in mode files
  stdout,             \* the document the run prints, None before
  batch,              \* graph(): its source_files
  fidx,               \* graph(): the file get_defs_refs is working on
  defs,               \* graph(): the definitions extracted so far
  refs,               \* graph(): the references extracted so far
  pc,                 \* graph(): "idle", "names", "assemble", "done", "crashed"
  out,                \* what the last worker printed on its standard output, None if nothing
  _quiet,             \* args.quiet
  stderr,             \* what error() has written, in order
  reported            \* the occurrences the engine has reported, in order

vars == <<mode, source_files, SOURCE_FILE_BATCH, i, all_data, wpc, stdout,
          batch, fidx, defs, refs, pc, out, _quiet, stderr, reported>>

wrapper_vars ==
  <<mode, source_files, SOURCE_FILE_BATCH, i, all_data, wpc, stdout, _quiet>>

SeqsUpTo(S, lo, hi) == UNION {[1..k -> S] : k \in lo..hi}

NoRepeat(s) == \A j, k \in 1..Len(s) : j # k => s[j] # s[k]

Empty == [Defs |-> <<>>, Refs |-> <<>>]

\* graph(args.dir, args.files): the files are given on the command line
InitFiles ==
  /\ mode = "files"
  /\ source_files \in SeqsUpTo(PyFiles, 1, MaxFiles)
  /\ SOURCE_FILE_BATCH = 1
  /\ wpc = "none"
  /\ batch = source_files
  /\ fidx = 1
  /\ pc = "names"

\* graph_wrapper(args.dir, nSourceFilesTrunc=args.maxfiles)
InitDir ==
  /\ mode = "dir"
  /\ \E walk \in {w \in SeqsUpTo(TreeFiles, 0, MaxFiles) : NoRepeat(w)} :
       \E nSourceFilesTrunc \in {None, Int_(1)} :
         source_files = truncate(get_source_files(walk), nSourceFilesTrunc)
  /\ SOURCE_FILE_BATCH \in 1..MaxBatch
  /\ wpc = "loop"
  /\ batch = <<>>
  /\ fidx = 0
  /\ pc = "idle"

Init ==
  /\ InitFiles \/ InitDir
  /\ i = 0
  /\ all_data = Empty
  /\ stdout = None
  /\ defs = <<>>
  /\ refs = <<>>
  /\ out = None
  /\ _quiet \in BOOLEAN
  /\ stderr = <<>>
  /\ reported = <<>>

(***************************************************************************)
(* graph(): the worker                                                     *)
(***************************************************************************)
\* the position of batch[fidx] in source_files
file_index == i + fidx

\* one round of the loop of get_defs_refs over the names of batch[fidx]
Collect(name, e) ==
  /\ reported' = Append(reported, [file |-> file_index, name |-> name])
  /\ defs' = IF e.kind = "def" THEN Append(defs, e.val) ELSE defs
  /\ refs' = IF e.kind = "ref" THEN Append(refs, e.val) ELSE refs
  /\ stderr' = IF e.kind = "error" /\ ~_quiet
               THEN Append(stderr, [file |-> file_index, name |-> name])
               ELSE stderr
  /\ pc' = IF e.kind = "raise" THEN "crashed" ELSE pc

NextName ==
  /\ pc = "names"
  /\ Len(reported) < MaxOccs
  /\ \E name \in Names(batch[fidx]) :
       Collect(name, get_defs_refs_name(name, batch[fidx],
                                        LineColToOffConverter(source_of(batch[fidx]))))
  /\ UNCHANGED <<wrapper_vars, batch, fidx, out>>

\* get_defs_refs returns; the loop of graph() goes to the next file
EndFile ==
  /\ pc = "names"
  /\ fidx' = fidx + 1
  /\ pc' = IF fidx = Len(batch) THEN "assemble" ELSE pc
  /\ UNCHANGED <<wrapper_vars, batch, defs, refs, out, stderr, reported>>

\* print("sys: ", unique_defs[0]) is an IndexError when there is no definition
Emit(g) ==
  IF g.Defs = <<>>
  THEN /\ pc' = "crashed"
       /\ UNCHANGED <<out, stdout>>
  ELSE /\ pc' = "done"
       /\ out' = g
       /\ stdout' = IF mode = "files" THEN g ELSE stdout

\* module definitions, de-duplication, self-references, print
Assemble ==
  /\ pc = "assemble"
  /\ Emit(assemble(batch, defs, refs))
  /\ UNCHANGED <<mode, source_files, SOURCE_FILE_BATCH, i, all_data, wpc,
                 batch, fidx, defs, refs, _quiet, stderr, reported>>

(***************************************************************************)
(* graph_wrapper(): one worker per batch                                   *)
(***************************************************************************)
\* subprocess.Popen(args, stdout=PIPE) on the batch at offset i
Popen ==
  /\ wpc = "loop"
  /\ i < Len(source_files)
  /\ wpc' = "wait"
  /\ batch' = batch_of(source_files, i, SOURCE_FILE_BATCH)
  /\ fidx' = 1
  /\ defs' = <<>>
  /\ refs' = <<>>
  /\ out' = None
  /\ pc' = "names"
  /\ UNCHANGED <<mode, source_files, SOURCE_FILE_BATCH, i, all_data, stdout,
                 _quiet, stderr, reported>>

\* p.communicate(), json.loads(out), extend: the worker has ended
Communicate ==
  /\ wpc = "wait"
  /\ pc \in {"done", "crashed"}
  /\ IF out = None
     THEN /\ wpc' = "crashed"
          /\ UNCHANGED <<i, all_data>>
     ELSE /\ wpc' = "loop"
          /\ all_data' = extend(all_data, out)
          /\ i' = i + SOURCE_FILE_BATCH
  /\ pc' = "idle"
  /\ UNCHANGED <<mode, source_files, SOURCE_FILE_BATCH, stdout,
                 batch, fidx, defs, refs, out, _quiet, stderr, reported>>

\* print(json.dumps(all_data)) after the last batch
Finish ==
  /\ wpc = "loop"
  /\ i >= Len(source_files)
  /\ wpc' = "done"
  /\ stdout' = all_data
  /\ UNCHANGED <<mode, source_files, SOURCE_FILE_BATCH, i, all_data,
                 batch, fidx, defs, refs, pc, out, _quiet, stderr, reported>>

Next == NextName \/ EndFile \/ Assemble \/ Popen \/ Communicate \/ Finish

Spec == Init /\ [][Next]_vars

(***************************************************************************)
(* What the claims speak of                                                *)
(***************************************************************************)
Range(s) == {s[k] : k \in 1..Len(s)}

\* a worker has printed its graph
Emitted == out # None

\* the result of the loop round that took the reported occurrence r
outcome_of(r) ==
  get_defs_refs_name(r.name, source_files[r.file],
                     LineColToOffConverter(source_of(source_files[r.file])))

\* the occurrences reported for the files of the current worker
reported_here == SelectSeq(reported, LAMBDA r : r.file > i)

\* the values of the outcomes of one kind among the occurrences rs, in order
RECURSIVE collected(_, _)
collected(rs, kind) ==
  IF rs = <<>> THEN <<>>
  ELSE (IF outcome_of(Head(rs)).kind = kind THEN <<outcome_of(Head(rs)).val>> ELSE <<>>)
         \o collected(Tail(rs), kind)

\* the first record of every Path of a list, as a set
RECURSIVE first_by_path(_, _)
first_by_path(ds, paths) ==
  IF ds = <<>> THEN {}
  ELSE IF Head(ds).Path \in paths THEN first_by_path(Tail(ds), paths)
  ELSE {Head(ds)} \cup first_by_path(Tail(ds), paths \cup {Head(ds).Path})

\* the module definitions of a file list, in the order of the list
modules_in_order(files) ==
  [k \in 1..Len(files) |-> module_def(filename_to_module_name(files[k]), files[k])]

(***************************************************************************)
(* C1: the Defs list a worker prints holds no two Definitions of the same  *)
(* Path, whatever collides: two extracted definitions, an extracted one    *)
(* and a module definition, or the module definitions of two files.        *)
(***************************************************************************)
C1_UniqueDefPaths ==
  Emitted =>
    \A j, k \in 1..Len(out.Defs) :
      j # k => out.Defs[j].Path # out.Defs[k].Path

\* a graph was printed for which an extracted definition had the Path of a
\* module definition and two extracted definitions had one Path
C1_Witness ==
  /\ Emitted
  /\ \E k \in 1..Len(defs) : defs[k].Path \in {m.Path : m \in Range(modules_in_order(batch))}
  /\ \E j, k \in 1..Len(defs) : j # k /\ defs[j].Path = defs[k].Path

(***************************************************************************)
(* C2, as claimed: every Definition a worker prints, the synthesized       *)
(* module Definitions included, has DefStart < DefEnd.                     *)
(***************************************************************************)
C2_AllSpansNonEmpty ==
  Emitted => \A k \in 1..Len(out.Defs) : out.Defs[k].DefStart < out.Defs[k].DefEnd

(***************************************************************************)
(* C2, amended: every Definition a worker prints has DefStart < DefEnd,    *)
(* except the synthesized module Definitions, whose span is (0, 0).        *)
(***************************************************************************)
C2_ExtractedSpansNonEmpty ==
  Emitted =>
    \A k \in 1..Len(out.Defs) :
      IF out.Defs[k] \in Range(modules_in_order(batch))
      THEN out.Defs[k].DefStart = 0 /\ out.Defs[k].DefEnd = 0
      ELSE out.Defs[k].DefStart < out.Defs[k].DefEnd

\* a printed graph holds an extracted definition beside the module definitions
C2_Witness ==
  /\ Emitted
  /\ \E k \in 1..Len(out.Defs) : out.Defs[k] \notin Range(modules_in_order(batch))

(***************************************************************************)
(* C3: in a printed graph every Definition has a Reference with Def = true *)
(* of its Path, File and span, and every Reference with Def = true matches *)
(* exactly one Definition on Path, File and span.                          *)
(***************************************************************************)
Matches(R, D) ==
  /\ R.DefPath = D.Path
  /\ R.File = D.File
  /\ R.Start = D.DefStart
  /\ R.End = D.DefEnd

C3_SelfReferences ==
  Emitted =>
    /\ \A j \in 1..Len(out.Defs) :
         \E k \in 1..Len(out.Refs) : out.Refs[k].Def /\ Matches(out.Refs[k], out.Defs[j])
    /\ \A k \in 1..Len(out.Refs) :
         out.Refs[k].Def =>
           Cardinality({j \in 1..Len(out.Defs) : Matches(out.Refs[k], out.Defs[j])}) = 1

\* a printed graph in which a definition was dropped as a duplicate and an
\* extracted reference stands beside the self-references
C3_Witness ==
  /\ Emitted
  /\ Len(out.Defs) < Len(batch) + Len(defs)
  /\ \E k \in 1..Len(out.Refs) : ~out.Refs[k].Def

(***************************************************************************)
(* C4: no two References of a printed graph have the same tuple            *)
(* (DefPath, DefFile, File, Start, End).                                   *)
(***************************************************************************)
C4_UniqueRefKeys ==
  Emitted =>
    \A j, k \in 1..Len(out.Refs) :
      j # k =>
        <<out.Refs[j].DefPath, out.Refs[j].DefFile, out.Refs[j].File,
          out.Refs[j].Start, out.Refs[j].End>>
        # <<out.Refs[k].DefPath, out.Refs[k].DefFile, out.Refs[k].File,
            out.Refs[k].Start, out.Refs[k].End>>

\* a graph was printed after the same reference was extracted twice
C4_Witness ==
  /\ Emitted
  /\ \E j, k \in 1..Len(refs) : j # k /\ refs[j] = refs[k]

(***************************************************************************)
(* C5, as claimed: an occurrence that fails to resolve, definition or      *)
(* reference, is reported and skipped, and nothing else is lost: the       *)
(* worker ends with a printed graph, all its files done, every occurrence  *)
(* that resolved in the graph and every failure written by error().        *)
(***************************************************************************)
InGraph(e) ==
  IF e.kind = "def" THEN \E D \in Range(out.Defs) : D.Path = e.val.Path
  ELSE \E R \in Range(out.Refs) :
         <<R.DefPath, R.DefFile, R.File, R.Start, R.End>>
           = <<e.val.DefPath, e.val.DefFile, e.val.File, e.val.Start, e.val.End>>

C5_FailuresSkipOneOccurrence ==
  pc \in {"done", "crashed"} =>
    /\ pc = "done"
    /\ Emitted
    /\ fidx > Len(batch)
    /\ \A k \in 1..Len(reported_here) :
         IF outcome_of(reported_here[k]).kind \in {"def", "ref"}
         THEN InGraph(outcome_of(reported_here[k]))
         ELSE _quiet \/ reported_here[k] \in Range(stderr)

(***************************************************************************)
(* C6, as claimed: when graph_wrapper has printed, the Definitions of its  *)
(* document, de-duplicated by Path with the first one kept, are the        *)
(* Definitions one worker prints for the whole file list, and every        *)
(* Definition is the target of the same References in both.                *)
(***************************************************************************)
\* what one worker prints for all the files, on the occurrences reported
whole_run == assemble(source_files, collected(reported, "def"), collected(reported, "ref"))

SameGraph(got, ref) ==
  /\ first_by_path(got.Defs, {}) = Range(ref.Defs)
  /\ \A D \in Range(ref.Defs) :
       {R \in Range(got.Refs) : R.DefPath = D.Path}
         = {R \in Range(ref.Refs) : R.DefPath = D.Path}

C6_BatchSizeInvariance ==
  (mode = "dir" /\ wpc = "done") => SameGraph(stdout, whole_run)

(***************************************************************************)
(* C6, amended: the same, provided no Path is the Path of Definitions      *)
(* (synthesized or extracted) of files of two different batches.           *)
(***************************************************************************)
\* the batch of the file a definition is in
batch_index(D) ==
  (CHOOSE k \in 1..Len(source_files) : source_files[k] = D.File) - 1
    \div SOURCE_FILE_BATCH

candidates == Range(modules_in_order(source_files)) \cup Range(collected(reported, "def"))

NoPathAcrossBatches ==
  \A D1, D2 \in candidates :
    D1.Path = D2.Path => batch_index(D1) = batch_index(D2)

C6_BatchSizeInvarianceWithinBatches ==
  (mode = "dir" /\ wpc = "done" /\ NoPathAcrossBatches) => SameGraph(stdout, whole_run)

\* graph_wrapper has printed the document of more than one batch, in one of
\* which an extracted definition was dropped as a duplicate
C6_Witness ==
  /\ mode = "dir"
  /\ wpc = "done"
  /\ Len(source_files) > SOURCE_FILE_BATCH
  /\ NoPathAcrossBatches
  /\ Len(stdout.Defs) < Len(source_files) + Len(collected(reported, "def"))

(***************************************************************************)
(* C7, as claimed: a definition of kind statement that binds attribute x   *)
(* through self in a method of class C gets the Path of C followed by x,   *)
(* and two different attributes of one class get different Paths.          *)
(***************************************************************************)
BindsAttribute(n) ==
  /\ n.is_definition
  /\ n.type = "statement"
  /\ n.attr # ""
  /\ class_scope(n.parents) # 0

\* <module>/<ClassName>.x with the separators of a Path
class_anchored(n) ==
  replace(join(replace(supermodule_path(n.module_path), "/", "."),
               n.parents[class_scope(n.parents)].full_name \o <<".", n.attr>>),
          ".", "/")

C7_SelfAttributePath ==
  /\ \A r \in Range(reported) :
       (BindsAttribute(r.name) /\ outcome_of(r).kind = "def") =>
         outcome_of(r).val.Path = class_anchored(r.name)
  /\ \A r1, r2 \in Range(reported) :
       (/\ BindsAttribute(r1.name) /\ BindsAttribute(r2.name)
        /\ outcome_of(r1).kind = "def" /\ outcome_of(r2).kind = "def"
        /\ r1.file = r2.file
        /\ r1.name.attr # r2.name.attr) =>
         outcome_of(r1).val.Path # outcome_of(r2).val.Path

(***************************************************************************)
(* C8, as claimed: the Definitions a worker prints are the first of every  *)
(* Path in the order: module Definitions in the order of the input files,  *)
(* then the extracted definitions in file and engine order.                *)
(***************************************************************************)
C8_FirstInInputOrder ==
  Emitted => Range(out.Defs) = first_by_path(modules_in_order(batch) \o defs, {})

(***************************************************************************)
(* C9, as claimed: convert(line, column) is table[line - 1] + column for a *)
(* line of the source, and a failure for every line beyond the last line   *)
(* of the source; get_defs_refs then reports and skips the occurrence.     *)
(***************************************************************************)
C9_OutOfRangeLines ==
  \A r \in Range(reported) :
    LET source == source_of(source_files[r.file])
        table == LineColToOffConverter(source)
        got == convert(table, r.name.line, r.name.column)
    IN IF r.name.line <= Len(split(source, "\n"))
       THEN ~got.tuple /\ got.off = table[r.name.line] + r.name.column
       ELSE got.tuple /\ outcome_of(r).kind = "error"

(***************************************************************************)
(* C10, as claimed: graph_wrapper runs the batches in file-list order, and *)
(* a worker that fails does not stop it: every batch is run and the run    *)
(* ends with the document printed.                                         *)
(***************************************************************************)
C10_FailedBatchDoesNotHalt ==
  (mode = "dir" /\ wpc \in {"done", "crashed"}) =>
    /\ wpc = "done"
    /\ i >= Len(source_files)
    /\ stdout # None

====
